---- MODULE Spec2Model ----
(***************************************************************************)
(* ReceptiViz / receptual: the numeric core (encoder, receptive_field) of  *)
(* src/receptual/processing/core/encoder.py and the data manager of        *)
(* src/receptual/processing/managers/data_manager.py with the menu         *)
(* handlers that drive it, the file validation of                          *)
(* src/receptiviz/processing/receptive_field.py, and the plot manager of   *)
(* src/receptual/processing/managers/plot_manager.py.                      *)
(*                                                                         *)
(* An ndarray is a record [shape, data]: shape is the tuple of axis sizes, *)
(* data the elements in row-major (C) order, as numpy stores them.  Values *)
(* are integers; a kernel with entries 0.5 / 0.25 is held in quarters      *)
(* (Quarter), which float64 represents exactly.                            *)
(***************************************************************************)
EXTENDS Integers, Sequences, FiniteSets, TLC

VARIABLES call, result, call2, result2, call3, result3, args,
          data_manager, last, message,
          processor, validated, plot_manager, component, plot_last

vars == <<call, result, call2, result2, call3, result3, args,
          data_manager, last, message,
          processor, validated, plot_manager, component, plot_last>>
coreVars == <<call, result, call2, result2, call3, result3, args>>
managerVars == <<data_manager, last, message>>
processorVars == <<processor, validated>>
plotVars == <<plot_manager, component, plot_last>>

(***************************************************************************)
(* Bounds of the model.                                                    *)
(***************************************************************************)
MaxT == 3
MaxK == 3
MaxN == 2

(***************************************************************************)
(* ndarray helpers.                                                        *)
(***************************************************************************)
RECURSIVE Prod(_)
Prod(shape) == IF shape = <<>> THEN 1 ELSE Head(shape) * Prod(Tail(shape))

ndim(a) == Len(a.shape)

\* a.shape[i:] for a 0-based i
ShapeFrom(a, i) == SubSeq(a.shape, i + 1, Len(a.shape))

\* Python's None, as the value of a result that holds no array
None == [shape |-> <<-1>>, data |-> <<>>]

\* The elements of an array as a stored tuple (numpy holds values, not
\* expressions still to be evaluated)
Stored(f) == SubSeq(f, 1, Len(f))

\* np.zeros(shape)
zeros(shape) == [shape |-> shape, data |-> Stored([i \in 1..Prod(shape) |-> 0])]

\* A negative Python index counts from the end of the axis.
PyIndex(i, n) == IF i < 0 THEN i + n ELSE i

RECURSIVE SumTo(_, _)
\* f[0] + ... + f[n-1]
SumTo(f, n) == IF n <= 0 THEN 0 ELSE f[n - 1] + SumTo(f, n - 1)

(***************************************************************************)
(* Outcomes of a call: a returned array, or a raised exception.            *)
(***************************************************************************)
Return(a) == [ok |-> TRUE, exc |-> "", msg |-> "", value |-> a]
Raise(e, m) == [ok |-> FALSE, exc |-> e, msg |-> m, value |-> None]
NoResult == [ok |-> FALSE, exc |-> "", msg |-> "", value |-> None]

MsgDims == "Dimensions of arrays are not compatible"
MsgSpatial == "Stimulus and receptive field must have the same spatial dimensions"
MsgLength == "Stimulus length must be greater than receptive field length"

(***************************************************************************)
(* encoder(stimulus, receptive_field)                                      *)
(***************************************************************************)
\* `if t - k >= 0` of the convolution loop
LagInRangeNoGuard(t, k) == TRUE
LagInRange(t, k) == t - k >= 0

\* The kernel tap that lag k meets: receptive_field[K - 1 - k]
KernelTapNoFlip(K, k) == k
KernelTap(K, k) == K - 1 - k

\* result[t] += stimulus[t - k] * receptive_field[K - 1 - k], on row, the
\* elements of result[t]: the slice of the stimulus (shape spatial) is
\* broadcast over the neuron axis of the kernel slice (shape (N,) + spatial).
AccumulateRowAdds(stimulus, rf, row, t, k) ==
    LET T == stimulus.shape[1]
        K == rf.shape[1]
        D == Prod(ShapeFrom(stimulus, 1))
        ts == PyIndex(t - k, T)
    IN  Stored([e \in 1..Len(row) |->
            row[e] + stimulus.data[ts * D + ((e - 1) % D) + 1]
                     + rf.data[KernelTap(K, k) * Len(row) + e]])
AccumulateRow(stimulus, rf, row, t, k) ==
    LET T == stimulus.shape[1]
        K == rf.shape[1]
        D == Prod(ShapeFrom(stimulus, 1))
        ts == PyIndex(t - k, T)
    IN  Stored([e \in 1..Len(row) |->
            row[e] + stimulus.data[ts * D + ((e - 1) % D) + 1]
                     * rf.data[KernelTap(K, k) * Len(row) + e]])

RECURSIVE lagLoop(_, _, _, _, _)
\* for k in range(K): ... at one t; only result[t] is written at that t
lagLoop(stimulus, rf, row, t, k) ==
    IF k >= rf.shape[1] THEN row
    ELSE lagLoop(stimulus, rf,
                 IF LagInRange(t, k)
                 THEN AccumulateRow(stimulus, rf, row, t, k)
                 ELSE row,
                 t, k + 1)

\* for t in range(T): ..., from result = np.zeros((T,) + receptive_field.shape[1:])
encoderLoop(stimulus, rf) ==
    LET T == stimulus.shape[1]
        len == Prod(ShapeFrom(rf, 1))
        rows == [t \in 0..(T - 1) |->
                    lagLoop(stimulus, rf, zeros(<<len>>).data, t, 0)]
    IN  [shape |-> <<T>> \o ShapeFrom(rf, 1),
         data |-> Stored([i \in 1..(T * len) |->
                     rows[(i - 1) \div len][((i - 1) % len) + 1]])]

\* np.sum(result, axis=tuple(range(2, result.ndim))) when result.ndim > 2
SumSpatialSkipped(res) == res
SumSpatial(res) ==
    IF ndim(res) > 2
    THEN LET D == Prod(ShapeFrom(res, 2))
             TN == res.shape[1] * res.shape[2]
         IN  [shape |-> SubSeq(res.shape, 1, 2),
              data |-> Stored([j \in 1..TN |->
                          SumTo([d \in 0..(D - 1) |-> res.data[(j - 1) * D + d + 1]], D)])]
    ELSE res

\* The three assertions at the top of encoder, in order.
RankCompatible(stimulus, rf) == ndim(stimulus) + 1 = ndim(rf)

SpatialCompatibleRankOnly(stimulus, rf) == TRUE
SpatialCompatible(stimulus, rf) ==
    ndim(stimulus) > 1 => ShapeFrom(stimulus, 1) = ShapeFrom(rf, 2)

LengthCompatibleOrEqual(stimulus, rf) == stimulus.shape[1] >= rf.shape[1]
LengthCompatible(stimulus, rf) == stimulus.shape[1] > rf.shape[1]

encoder(stimulus, rf) ==
    IF ~RankCompatible(stimulus, rf) THEN Raise("AssertionError", MsgDims)
    ELSE IF ~SpatialCompatible(stimulus, rf) THEN Raise("AssertionError", MsgSpatial)
    ELSE IF ~LengthCompatible(stimulus, rf) THEN Raise("AssertionError", MsgLength)
    ELSE Return(SumSpatial(encoderLoop(stimulus, rf)))

\* The arrays a call can reach, by the name that holds them: the arguments
\* as the call leaves them, the arrays the body allocates, and the name of
\* the array it returned ("none" when it raised).
NoMemory ==
    [stimulus |-> None, receptive_field |-> None, activity |-> None,
     result |-> None, sta |-> None, returned |-> "none"]

\* The array that `result[t] += ...` writes into
AccumulatedIntoStimulus == "stimulus"
AccumulatedInto == "result"

\* The name of `return result`
Returned == "result"

\* encoder, statement by statement, on the arrays it can reach
encoderMemory(stimulus, rf) ==
    LET m0 == [NoMemory EXCEPT !.stimulus = stimulus, !.receptive_field = rf]
    IN  IF ~(/\ RankCompatible(stimulus, rf)
             /\ SpatialCompatible(stimulus, rf)
             /\ LengthCompatible(stimulus, rf))
        THEN m0
        ELSE LET \* result = np.zeros(result_shape)
                 m1 == [m0 EXCEPT !.result =
                            zeros(<<stimulus.shape[1]>> \o ShapeFrom(rf, 1))]
                 \* the loop
                 m2 == [m1 EXCEPT ![AccumulatedInto] = encoderLoop(stimulus, rf)]
                 \* result = np.sum(result, axis=axes): a new array under the name
                 m3 == [m2 EXCEPT !.result = SumSpatial(m2.result)]
             IN  [m3 EXCEPT !.returned = Returned]

(***************************************************************************)
(* encoder_faster(stimulus, receptive_field)                               *)
(***************************************************************************)
\* a[:, np.newaxis] on a 1-D stimulus, a[:, :, np.newaxis] on a 2-D kernel
NewAxis(a) == [a EXCEPT !.shape = a.shape \o <<1>>]

\* np.pad(stimulus, ((K - 1, 0), (0, 0), ...), mode='constant')
PadStart(stimulus, K) ==
    LET D == Prod(ShapeFrom(stimulus, 1))
    IN  [shape |-> <<stimulus.shape[1] + K - 1>> \o ShapeFrom(stimulus, 1),
         data |-> zeros(<<(K - 1) * D>>).data \o stimulus.data]

\* sliding_window_view(stim_padded, window_shape=K, axis=0): the window
\* axis comes last, X[t, d, j] = stim_padded[t + j, d]
SlidingWindows(stim_padded, K) ==
    LET T == stim_padded.shape[1] - K + 1
        D == Prod(ShapeFrom(stim_padded, 1))
    IN  [shape |-> <<T>> \o ShapeFrom(stim_padded, 1) \o <<K>>,
         data |-> Stored([i \in 1..(T * D * K) |->
                     LET j == (i - 1) % K
                         d == ((i - 1) \div K) % D
                         t == (i - 1) \div (K * D)
                     IN  stim_padded.data[(t + j) * D + d + 1]])]

\* a.reshape(shape): the elements in their stored (row-major) order
Reshape(a, shape) == [shape |-> shape, data |-> a.data]

\* a.T of a 2-D array
Transpose2D(a) ==
    LET R == a.shape[1]
        C == a.shape[2]
    IN  [shape |-> <<C, R>>,
         data |-> Stored([i \in 1..(R * C) |->
                     a.data[((i - 1) % R) * C + ((i - 1) \div R) + 1]])]

\* X @ rf_reshaped
MatMul(X, Y) ==
    LET T == X.shape[1]
        M == X.shape[2]
        N == Y.shape[2]
    IN  [shape |-> <<T, N>>,
         data |-> Stored([i \in 1..(T * N) |->
                     LET t == (i - 1) \div N
                         n == (i - 1) % N
                     IN  SumTo([m \in 0..(M - 1) |->
                                   X.data[t * M + m + 1] * Y.data[m * N + n + 1]], M)])]

\* receptive_field.transpose(1, *spatial_dims, 0) of a kernel (K, N, D)
LagAxisLast(rf) ==
    LET K == rf.shape[1]
        N == rf.shape[2]
        D == Prod(ShapeFrom(rf, 2))
    IN  [shape |-> <<N>> \o ShapeFrom(rf, 2) \o <<K>>,
         data |-> Stored([i \in 1..(K * N * D) |->
                     LET k == (i - 1) % K
                         d == ((i - 1) \div K) % D
                         n == (i - 1) \div (K * D)
                     IN  rf.data[(k * N + n) * D + d + 1]])]

\* rf_reshaped: the transposed kernel is assigned and then overwritten by
\* receptive_field.reshape(N, K * D).T, taken from the kernel as it came
RfReshapedFromTransposed(rf) ==
    Transpose2D(Reshape(LagAxisLast(rf),
                        <<rf.shape[2], rf.shape[1] * Prod(ShapeFrom(rf, 2))>>))
RfReshaped(rf) ==
    Transpose2D(Reshape(rf, <<rf.shape[2], rf.shape[1] * Prod(ShapeFrom(rf, 2))>>))

encoder_faster(stimulus, rf) ==
    IF ~RankCompatible(stimulus, rf) THEN Raise("AssertionError", MsgDims)
    ELSE IF ~SpatialCompatible(stimulus, rf) THEN Raise("AssertionError", MsgSpatial)
    ELSE IF ~LengthCompatible(stimulus, rf) THEN Raise("AssertionError", MsgLength)
    ELSE LET S == IF ndim(stimulus) = 1 THEN NewAxis(stimulus) ELSE stimulus
             W == IF ndim(rf) = 2 THEN NewAxis(rf) ELSE rf
             T == S.shape[1]
             K == W.shape[1]
             D == Prod(ShapeFrom(S, 1))
             X == Reshape(SlidingWindows(PadStart(S, K), K), <<T, K * D>>)
         IN  Return(MatMul(X, RfReshaped(W)))

(***************************************************************************)
(* receptive_field(stimulus, activity, kernel_size)                        *)
(*                                                                         *)
(* kernel_size is a Python number: [float, twice] holds its type and twice *)
(* its value, so that 2.5 is [float |-> TRUE, twice |-> 5].                *)
(***************************************************************************)
PyInt(n) == [float |-> FALSE, twice |-> 2 * n]
PyFloat(halves) == [float |-> TRUE, twice |-> halves]
IsIntegral(x) == x.twice % 2 = 0

MsgActivity2D == "Activity must be a 2D array with shape (T, N)"
MsgTime == "Stimulus and activity must have the same time dimension"
MsgKernel == "Kernel size must be less than the stimulus length"
MsgZerosFloat == "'float' object cannot be interpreted as an integer"
MsgZerosNegative == "negative dimensions are not allowed"
MsgBroadcast == "operands could not be broadcast together"
MsgNameD == "name 'D' is not defined"

\* The three assertions at the top of receptive_field, in order.
ActivityIs2D(activity) == ndim(activity) = 2

SameTimeDimension(stimulus, activity) == stimulus.shape[1] = activity.shape[1]

KernelShorterNoCheck(kernel_size, stimulus) == TRUE
KernelShorter(kernel_size, stimulus) == kernel_size.twice < 2 * stimulus.shape[1]

\* sta[-k - 1] += stim_centered[t - k] * activity[t] and
\* sta /= activity.sum(axis=0): the operand of shape (1,) + spatial times
\* one of shape (N,) must broadcast into sta's (N,) + spatial.  The values
\* of sta never leave the function (it raises at `kernel_size * D` first),
\* so only the shapes are kept.
StaBroadcasts(stimulus, activity) ==
    LET spatial == ShapeFrom(stimulus, 1)
        N == activity.shape[2]
    IN  spatial = <<>> \/ N = 1 \/ spatial[Len(spatial)] = N

\* sta.reshape(kernel_size * D, -1): D is bound nowhere in the function
ReshapeStaBound(stimulus, activity, kernel_size) ==
    Return(zeros(<<kernel_size.twice \div 2, activity.shape[2]>> \o ShapeFrom(stimulus, 1)))
ReshapeSta(stimulus, activity, kernel_size) == Raise("NameError", MsgNameD)

\* The array that `sta[-k - 1] += ...` and `sta /= ...` write into
StaAccumulatedInto == "sta"

\* receptive_field on the arrays it can reach: stim_centered is a new array
\* (stimulus - stimulus.mean(axis=0)); of sta only the shape is kept.
receptiveFieldMemory(stimulus, activity, kernel_size) ==
    LET m0 == [NoMemory EXCEPT !.stimulus = stimulus, !.activity = activity]
    IN  IF ~(/\ ActivityIs2D(activity)
             /\ SameTimeDimension(stimulus, activity)
             /\ KernelShorter(kernel_size, stimulus))
        THEN m0
        \* np.zeros(sta_shape) raises
        ELSE IF kernel_size.float \/ kernel_size.twice < 0 THEN m0
        ELSE LET sta == zeros(<<kernel_size.twice \div 2, activity.shape[2]>>
                              \o ShapeFrom(stimulus, 1))
                 m1 == [m0 EXCEPT !.sta = sta]
             \* the first `+=` (or, with no lag to loop over, `/=`) raises
             IN  IF ~StaBroadcasts(stimulus, activity)
                 THEN m1
                 ELSE [m1 EXCEPT ![StaAccumulatedInto] = sta]

receptive_field(stimulus, activity, kernel_size) ==
    IF ~ActivityIs2D(activity) THEN Raise("AssertionError", MsgActivity2D)
    ELSE IF ~SameTimeDimension(stimulus, activity)
    THEN Raise("AssertionError", MsgTime)
    ELSE IF ~KernelShorter(kernel_size, stimulus)
    THEN Raise("AssertionError", MsgKernel)
    \* np.zeros((K, N) + stimulus.shape[1:])
    ELSE IF kernel_size.float THEN Raise("TypeError", MsgZerosFloat)
    ELSE IF kernel_size.twice < 0 THEN Raise("ValueError", MsgZerosNegative)
    ELSE IF ~StaBroadcasts(stimulus, activity) THEN Raise("ValueError", MsgBroadcast)
    ELSE ReshapeSta(stimulus, activity, kernel_size)

(***************************************************************************)
(* Inputs of the core functions.                                           *)
(***************************************************************************)
SpatialShapes == {<<>>, <<2>>, <<3>>, <<1, 2>>}
Patterns == {"ramp", "mixed", "impulse"}

\* The element at flat index i (from 0) of a pattern.
Pat(p, i) ==
    CASE p = "ramp" -> i + 1
      [] p = "mixed" -> ((i * i) % 5) - 2
      [] p = "impulse" -> IF i = 0 THEN 1 ELSE 0

MkArray(shape, p) ==
    [shape |-> shape, data |-> Stored([i \in 1..Prod(shape) |-> Pat(p, i - 1)])]

\* tests/test_encoder.py, test_encoder_1D; the kernel and the activity in
\* quarters: [0.5, 0.25, 0.25] and [0.25, 0.75, 1.75, 2.75, 3.75, 4.75].
ExampleS == [shape |-> <<6>>, data |-> <<1, 2, 3, 4, 5, 6>>]
ExampleW == [shape |-> <<3, 1>>, data |-> <<2, 1, 1>>]
ExampleA == [shape |-> <<6, 1>>, data |-> <<1, 3, 7, 11, 15, 19>>]

Stimuli ==
    {MkArray(<<T>> \o sp, p) : T \in 1..MaxT, sp \in SpatialShapes, p \in Patterns}
    \cup {zeros(<<MaxT>> \o sp) : sp \in SpatialShapes}
    \cup {ExampleS}
Kernels ==
    {MkArray(<<K, N>> \o sp, p) :
        K \in 1..MaxK, N \in 1..MaxN, sp \in SpatialShapes,
        p \in Patterns \ {"impulse"}}
    \cup {zeros(<<K, MaxN>> \o sp) : K \in 1..(MaxK - 1), sp \in SpatialShapes}
    \cup {ExampleW}
Activities ==
    {MkArray(<<T, N>>, "ramp") : T \in 1..MaxT, N \in 1..MaxN}
    \cup {MkArray(<<T>>, "ramp") : T \in 1..MaxT}
    \cup {ExampleA}
KernelSizes ==
    {PyInt(n) : n \in (-1)..(MaxT + 1)} \cup {PyFloat(h) : h \in 1..(2 * MaxK)}

(***************************************************************************)
(* The core functions as calls: call/result hold the last call and its     *)
(* outcome, call2/result2 a second call made on related arguments.  The    *)
(* functions keep no state between calls, so each behaviour makes one call *)
(* and the calls that follow from it.                                      *)
(***************************************************************************)
NoCall == [fn |-> "none", stimulus |-> None, rf |-> None, activity |-> None,
           kernel_size |-> PyInt(0)]

EncoderCall(S, W) ==
    [fn |-> "encoder", stimulus |-> S, rf |-> W, activity |-> None,
     kernel_size |-> PyInt(0)]
EstimatorCall(S, A, ks) ==
    [fn |-> "receptive_field", stimulus |-> S, rf |-> None, activity |-> A,
     kernel_size |-> ks]

\* S with pattern p added to its samples at the times t >= t1
Perturb(S, t1, p) ==
    LET D == Prod(ShapeFrom(S, 1))
    IN  [S EXCEPT !.data =
            Stored([i \in 1..Len(S.data) |->
                IF (i - 1) \div D >= t1
                THEN S.data[i] + Pat(p, i - 1 - t1 * D)
                ELSE S.data[i]])]

\* encoder(S, W)
Encode(S, W) ==
    /\ call.fn = "none"
    /\ call' = EncoderCall(S, W)
    /\ result' = encoder(S, W)
    /\ args' = encoderMemory(S, W)
    /\ call2' = NoCall
    /\ result2' = NoResult
    /\ UNCHANGED <<call3, result3>>
    /\ UNCHANGED managerVars
    /\ UNCHANGED processorVars
    /\ UNCHANGED plotVars

\* encoder(S', W) for a stimulus S' that equals S before time t1
EncodePerturbed(t1, p) ==
    /\ call.fn = "encoder"
    /\ call2.fn = "none"
    /\ t1 < call.stimulus.shape[1]
    /\ call2' = EncoderCall(Perturb(call.stimulus, t1, p), call.rf)
    /\ result2' = encoder(Perturb(call.stimulus, t1, p), call.rf)
    /\ UNCHANGED <<call, result, call3, result3, args>>
    /\ UNCHANGED managerVars
    /\ UNCHANGED processorVars
    /\ UNCHANGED plotVars

\* a + b and c * a, elementwise
AddArrays(a, b) ==
    [shape |-> a.shape, data |-> Stored([i \in 1..Len(a.data) |-> a.data[i] + b.data[i]])]
Scale(c, a) ==
    [shape |-> a.shape, data |-> Stored([i \in 1..Len(a.data) |-> c * a.data[i]])]

Scalars == {-1, 0, 2}

\* encoder(S2, W) for a second stimulus of the shape of the first
EncodeOtherStimulus(S2) ==
    /\ call.fn = "encoder"
    /\ result.ok
    /\ call2.fn = "none"
    /\ call3.fn = "none"
    /\ S2.shape = call.stimulus.shape
    /\ call2' = EncoderCall(S2, call.rf)
    /\ result2' = encoder(S2, call.rf)
    /\ UNCHANGED <<call, result, call3, result3, args>>
    /\ UNCHANGED managerVars
    /\ UNCHANGED processorVars
    /\ UNCHANGED plotVars

\* encoder(S, W2) for a second kernel of the shape of the first
EncodeOtherKernel(W2) ==
    /\ call.fn = "encoder"
    /\ result.ok
    /\ call2.fn = "none"
    /\ call3.fn = "none"
    /\ W2.shape = call.rf.shape
    /\ call2' = EncoderCall(call.stimulus, W2)
    /\ result2' = encoder(call.stimulus, W2)
    /\ UNCHANGED <<call, result, call3, result3, args>>
    /\ UNCHANGED managerVars
    /\ UNCHANGED processorVars
    /\ UNCHANGED plotVars

\* encoder(S1 + S2, W) after encoder(S1, W) and encoder(S2, W)
EncodeSumStimuli ==
    /\ call.fn = "encoder"
    /\ call2.fn = "encoder"
    /\ call3.fn = "none"
    /\ result.ok
    /\ result2.ok
    /\ call.rf = call2.rf
    /\ call3' = EncoderCall(AddArrays(call.stimulus, call2.stimulus), call.rf)
    /\ result3' = encoder(AddArrays(call.stimulus, call2.stimulus), call.rf)
    /\ UNCHANGED <<call, result, call2, result2, args>>
    /\ UNCHANGED managerVars
    /\ UNCHANGED processorVars
    /\ UNCHANGED plotVars

\* encoder(S, W1 + W2) after encoder(S, W1) and encoder(S, W2)
EncodeSumKernels ==
    /\ call.fn = "encoder"
    /\ call2.fn = "encoder"
    /\ call3.fn = "none"
    /\ result.ok
    /\ result2.ok
    /\ call.stimulus = call2.stimulus
    /\ call3' = EncoderCall(call.stimulus, AddArrays(call.rf, call2.rf))
    /\ result3' = encoder(call.stimulus, AddArrays(call.rf, call2.rf))
    /\ UNCHANGED <<call, result, call2, result2, args>>
    /\ UNCHANGED managerVars
    /\ UNCHANGED processorVars
    /\ UNCHANGED plotVars

\* encoder(c * S, W) after encoder(S, W)
EncodeScaled(c) ==
    /\ call.fn = "encoder"
    /\ result.ok
    /\ call2.fn = "none"
    /\ call3.fn = "none"
    /\ call3' = EncoderCall(Scale(c, call.stimulus), call.rf)
    /\ result3' = encoder(Scale(c, call.stimulus), call.rf)
    /\ UNCHANGED <<call, result, call2, result2, args>>
    /\ UNCHANGED managerVars
    /\ UNCHANGED processorVars
    /\ UNCHANGED plotVars

\* encoder_faster(S, W) on the arguments of an encoder call
EncodeFaster ==
    /\ call.fn = "encoder"
    /\ call2.fn = "none"
    /\ call2' = [EncoderCall(call.stimulus, call.rf) EXCEPT !.fn = "encoder_faster"]
    /\ result2' = encoder_faster(call.stimulus, call.rf)
    /\ UNCHANGED <<call, result, call3, result3, args>>
    /\ UNCHANGED managerVars
    /\ UNCHANGED processorVars
    /\ UNCHANGED plotVars

\* receptive_field(S, A, kernel_size)
Estimate(S, A, ks) ==
    /\ call.fn = "none"
    /\ call' = EstimatorCall(S, A, ks)
    /\ result' = receptive_field(S, A, ks)
    /\ args' = receptiveFieldMemory(S, A, ks)
    /\ call2' = NoCall
    /\ result2' = NoResult
    /\ UNCHANGED <<call3, result3>>
    /\ UNCHANGED managerVars
    /\ UNCHANGED processorVars
    /\ UNCHANGED plotVars

\* receptive_field(S, encoder(S, W), kernel_size=W.shape[0])
EstimateEncoded ==
    /\ call.fn = "encoder"
    /\ result.ok
    /\ call2.fn = "none"
    /\ call2' = EstimatorCall(call.stimulus, result.value, PyInt(call.rf.shape[1]))
    /\ result2' = receptive_field(call.stimulus, result.value, PyInt(call.rf.shape[1]))
    /\ UNCHANGED <<call, result, call3, result3, args>>
    /\ UNCHANGED managerVars
    /\ UNCHANGED processorVars
    /\ UNCHANGED plotVars

(***************************************************************************)
(* The data manager: EncoderDataManager with its three components.         *)
(* data_manager is the record [activity, stimulus, receptive_field]; a     *)
(* method is an operator from the manager before the call to the manager   *)
(* after it and what the call returned or raised (ret).                    *)
(***************************************************************************)
MIN_TIME_POINTS == 10
DEFAULT_KERNEL_SIZE == 1

\* Python's None in an int attribute, in a tuple attribute, in a path
NoneInt == -1
NoneDims == <<-1>>
NonePath == "None"

\* Bound on the length of an errors list (the 'Cannot set ...' messages pile up)
MaxErrors == 2

\* The .npy files a caller can name: the array each holds, or no file at all.
Files ==
    LET T0 == MIN_TIME_POINTS
        File(name, shape, p) == [name |-> name, exists |-> TRUE, array |-> MkArray(shape, p)]
    IN  {[name |-> "missing.npy", exists |-> FALSE, array |-> None],
         File("stim_a.npy", <<T0, 1, 2>>, "ramp"),
         File("stim_b.npy", <<T0, 1, 2>>, "mixed"),
         File("stim_short.npy", <<T0 - 1, 1, 2>>, "ramp"),
         File("act_a.npy", <<T0, 1>>, "ramp"),
         File("act_n2.npy", <<T0, 2>>, "ramp"),
         File("act_short.npy", <<T0 - 1, 1>>, "ramp"),
         File("act_1d.npy", <<T0>>, "ramp"),
         File("rf_a.npy", <<2, 1, 1, 2>>, "ramp"),
         File("rf_long.npy", <<T0, 1, 1, 2>>, "ramp"),
         File("rf_longer.npy", <<T0 + 1, 1, 1, 2>>, "ramp")}

\* The file a caller named
FileNamed(name) == CHOOSE f \in Files : f.name = name

\* The messages appended to errors, without the values and the component
\* name the code formats into them.
ErrLoad == "Error loading data: No file found"
ErrStimulusDims == "Stimulus data must have at least 3 dimensions"
ErrStimulusShort == "Not enough time points in stimulus data"
ErrStimulusActivity == "Stimulus time points must match activity time points"
ErrStimulusRF == "Stimulus spatial dimensions must match receptive field spatial dimensions"
ErrActivityDims == "Activity data must be 2D (time x neurons)"
ErrActivityShort == "Not enough time points in activity data"
ErrActivityStimulus == "Activity time points must match stimulus time points"
ErrActivityRF == "Activity neuron count must match receptive field second dimension"
ErrRFActivity == "Receptive field neuron dimension must match activity neuron count"
ErrRFStimulus == "Receptive field spatial dimensions must match stimulus spatial dimensions"
ErrRFWhenActivity == "Cannot set receptive field data when activity is already set"
ErrActivityWhenRF == "Cannot set activity data when receptive field is already set"
ErrComputeRF == "Failed to compute receptive field: "
ErrComputeActivity == "Failed to compute activity: "

ReceptiveFieldDefaults ==
    [data |-> None, errors |-> <<>>, kernel_size |-> DEFAULT_KERNEL_SIZE,
     no_neurons |-> NoneInt, spatial_dims |-> NoneDims, computed |-> FALSE,
     computable |-> FALSE, loaded |-> FALSE, filepath |-> NonePath, available |-> TRUE]
StimulusDefaults ==
    [data |-> None, errors |-> <<>>, timestamps |-> NoneInt, spatial_dims |-> NoneDims,
     loaded |-> FALSE, computed |-> FALSE, filepath |-> NonePath, available |-> TRUE]
ActivityDefaults ==
    [data |-> None, errors |-> <<>>, timestamps |-> NoneInt, no_neurons |-> NoneInt,
     computed |-> FALSE, computable |-> FALSE, loaded |-> FALSE, filepath |-> NonePath,
     available |-> TRUE]

(***************************************************************************)
(* reset_state of each component.  After construction the manager has all  *)
(* three attributes, so every hasattr test holds.                          *)
(***************************************************************************)
RECURSIVE ReceptiveField_reset_state(_), Activity_reset_state(_)

ReceptiveField_reset_state(dm) ==
    LET d1 == [dm EXCEPT !.receptive_field = ReceptiveFieldDefaults]
        d2 == IF d1.activity.computed THEN Activity_reset_state(d1) ELSE d1
    IN  IF ~d2.activity.loaded
        THEN [d2 EXCEPT !.activity.available = TRUE]
        ELSE [d2 EXCEPT !.receptive_field.available = FALSE]

Activity_reset_stateNoFlags(dm) ==
    LET d1 == [dm EXCEPT !.activity = ActivityDefaults]
    IN  IF d1.receptive_field.computed THEN ReceptiveField_reset_state(d1) ELSE d1
Activity_reset_state(dm) ==
    LET d1 == [dm EXCEPT !.activity = ActivityDefaults]
        d2 == IF d1.receptive_field.computed THEN ReceptiveField_reset_state(d1) ELSE d1
    IN  IF ~d2.receptive_field.loaded
        THEN [d2 EXCEPT !.receptive_field.available = TRUE]
        ELSE [d2 EXCEPT !.activity.available = FALSE]

Stimulus_reset_stateAlone(dm) == [dm EXCEPT !.stimulus = StimulusDefaults]
Stimulus_reset_state(dm) ==
    LET d1 == [dm EXCEPT !.stimulus = StimulusDefaults]
        d2 == IF d1.activity.computed THEN Activity_reset_state(d1) ELSE d1
    IN  IF d2.receptive_field.computed THEN ReceptiveField_reset_state(d2) ELSE d2

(***************************************************************************)
(* validate_data of each component: the manager with the error appended,   *)
(* and the array, or None.                                                 *)
(***************************************************************************)
Valid(dm, data) == [dm |-> dm, data |-> data]

\* `if data.shape[0] < MIN_TIME_POINTS` of Stimulus and Activity
EnoughTimePointsOffByOne(data) == data.shape[1] >= MIN_TIME_POINTS - 1
EnoughTimePoints(data) == data.shape[1] >= MIN_TIME_POINTS

ReceptiveField_reject(dm, e) ==
    Valid([dm EXCEPT !.receptive_field.errors = Append(@, e)], None)
Stimulus_reject(dm, e) == Valid([dm EXCEPT !.stimulus.errors = Append(@, e)], None)
Activity_reject(dm, e) == Valid([dm EXCEPT !.activity.errors = Append(@, e)], None)

ReceptiveField_validate_data(dm, f) ==
    IF ~f.exists THEN ReceptiveField_reject(dm, ErrLoad)
    ELSE IF dm.activity.loaded /\ f.array.shape[2] # dm.activity.no_neurons
    THEN ReceptiveField_reject(dm, ErrRFActivity)
    ELSE IF dm.stimulus.loaded /\ ShapeFrom(f.array, 2) # dm.stimulus.spatial_dims
    THEN ReceptiveField_reject(dm, ErrRFStimulus)
    ELSE Valid(dm, f.array)

Stimulus_validate_data(dm, f) ==
    IF ~f.exists THEN Stimulus_reject(dm, ErrLoad)
    ELSE IF ndim(f.array) < 3 THEN Stimulus_reject(dm, ErrStimulusDims)
    ELSE IF ~EnoughTimePoints(f.array) THEN Stimulus_reject(dm, ErrStimulusShort)
    ELSE IF dm.activity.loaded /\ f.array.shape[1] # dm.activity.timestamps
    THEN Stimulus_reject(dm, ErrStimulusActivity)
    ELSE IF dm.receptive_field.loaded
            /\ ShapeFrom(f.array, 1) # dm.receptive_field.spatial_dims
    THEN Stimulus_reject(dm, ErrStimulusRF)
    ELSE Valid(dm, f.array)

Activity_validate_data(dm, f) ==
    IF ~f.exists THEN Activity_reject(dm, ErrLoad)
    ELSE IF ndim(f.array) # 2 THEN Activity_reject(dm, ErrActivityDims)
    ELSE IF ~EnoughTimePoints(f.array) THEN Activity_reject(dm, ErrActivityShort)
    ELSE IF dm.stimulus.loaded /\ f.array.shape[1] # dm.stimulus.timestamps
    THEN Activity_reject(dm, ErrActivityStimulus)
    ELSE IF dm.receptive_field.loaded /\ f.array.shape[2] # dm.receptive_field.no_neurons
    THEN Activity_reject(dm, ErrActivityRF)
    ELSE Valid(dm, f.array)

(***************************************************************************)
(* set_data, compute and update_kernel_size.  est lists the kernel sizes   *)
(* the call handed to receptual.receptive_field, in order.                 *)
(***************************************************************************)
Out(dm, ret) == [dm |-> dm, ret |-> ret, est |-> <<>>]
OutEst(dm, ret, est) == [dm |-> dm, ret |-> ret, est |-> est]

\* `if self.data_manager.activity.loaded` of ReceptiveField.set_data and
\* `if self.data_manager.receptive_field.loaded` of Activity.set_data
ActivityAlreadySetIgnored(dm) == FALSE
ActivityAlreadySet(dm) == dm.activity.loaded
ReceptiveFieldAlreadySet(dm) == dm.receptive_field.loaded

ReceptiveField_set_data(dm, f) ==
    IF ActivityAlreadySet(dm)
    THEN Out([dm EXCEPT !.receptive_field.errors = Append(@, ErrRFWhenActivity)], "False")
    ELSE LET v == ReceptiveField_validate_data(dm, f)
         IN  IF v.data # None
             THEN IF ndim(v.data) < 2
                  \* data.shape[1] raises once data and kernel_size are assigned
                  THEN Out([v.dm EXCEPT !.receptive_field.data = v.data,
                                        !.receptive_field.kernel_size = v.data.shape[1]],
                           "IndexError")
                  ELSE Out([v.dm EXCEPT
                               !.receptive_field.data = v.data,
                               !.receptive_field.kernel_size = v.data.shape[1],
                               !.receptive_field.no_neurons = v.data.shape[2],
                               !.receptive_field.spatial_dims = ShapeFrom(v.data, 2),
                               !.receptive_field.loaded = TRUE,
                               !.receptive_field.filepath = f.name,
                               !.receptive_field.available = FALSE,
                               !.activity.available = FALSE,
                               !.activity.computable = IF v.dm.stimulus.loaded THEN TRUE ELSE @],
                           "True")
             ELSE Out(ReceptiveField_reset_state(v.dm), "False")

Stimulus_set_data(dm, f) ==
    LET v == Stimulus_validate_data(dm, f)
    IN  IF v.data # None
        THEN Out([v.dm EXCEPT
                     !.stimulus.data = v.data,
                     !.stimulus.spatial_dims = ShapeFrom(v.data, 1),
                     !.stimulus.timestamps = v.data.shape[1],
                     !.stimulus.loaded = TRUE,
                     !.stimulus.filepath = f.name,
                     !.stimulus.available = FALSE,
                     !.receptive_field.computable =
                         IF v.dm.activity.loaded THEN TRUE ELSE @,
                     !.activity.computable =
                         IF ~v.dm.activity.loaded /\ v.dm.receptive_field.loaded
                         THEN TRUE ELSE @],
                 "True")
        ELSE Out(Stimulus_reset_state(v.dm), "False")

Activity_set_data(dm, f) ==
    IF ReceptiveFieldAlreadySet(dm)
    THEN Out([dm EXCEPT !.activity.errors = Append(@, ErrActivityWhenRF)], "False")
    ELSE LET v == Activity_validate_data(dm, f)
         IN  IF v.data # None
             THEN Out([v.dm EXCEPT
                          !.activity.data = v.data,
                          !.activity.timestamps = v.data.shape[1],
                          !.activity.no_neurons = v.data.shape[2],
                          !.activity.loaded = TRUE,
                          !.activity.filepath = f.name,
                          !.activity.available = FALSE,
                          !.receptive_field.available = FALSE,
                          !.receptive_field.computable =
                              IF v.dm.stimulus.loaded THEN TRUE ELSE @],
                      "True")
             ELSE Out(Activity_reset_state(v.dm), "False")

\* `return False` at the end of the except branch of compute
ComputeFailed == "False"

ReceptiveField_compute(dm) ==
    IF ~(dm.activity.loaded /\ dm.stimulus.loaded) THEN Out(dm, "AssertionError")
    ELSE LET k == dm.receptive_field.kernel_size
             r == receptive_field(dm.stimulus.data, dm.activity.data, PyInt(k))
         IN  IF r.ok
             THEN OutEst([dm EXCEPT
                             !.receptive_field.data = r.value,
                             !.receptive_field.kernel_size = r.value.shape[1],
                             !.receptive_field.no_neurons = r.value.shape[2],
                             !.receptive_field.spatial_dims = ShapeFrom(r.value, 2),
                             !.receptive_field.computed = TRUE],
                         "True", <<k>>)
             ELSE OutEst(ReceptiveField_reset_state(
                             [dm EXCEPT !.receptive_field.errors =
                                            Append(@, ErrComputeRF \o r.msg)]),
                         ComputeFailed, <<k>>)

Activity_compute(dm) ==
    IF ~(dm.receptive_field.loaded /\ dm.stimulus.loaded) THEN Out(dm, "AssertionError")
    ELSE LET r == encoder(dm.stimulus.data, dm.receptive_field.data)
         IN  IF r.ok
             THEN Out([dm EXCEPT
                          !.activity.data = r.value,
                          !.activity.timestamps = r.value.shape[1],
                          !.activity.no_neurons = r.value.shape[2],
                          !.activity.computed = TRUE],
                      "True")
             ELSE Out(Activity_reset_state(
                          [dm EXCEPT !.activity.errors =
                                         Append(@, ErrComputeActivity \o r.msg)]),
                      ComputeFailed)

\* int(kernel_size): the fractional part is dropped
int(x) == IF x.twice >= 0 THEN x.twice \div 2 ELSE -((-x.twice) \div 2)

ReceptiveField_update_kernel_size(dm, kernel_size) ==
    IF ~dm.receptive_field.computable THEN Out(dm, "AssertionError")
    ELSE IF kernel_size.twice <= 0 THEN Out(dm, "ValueError")
    ELSE LET c == ReceptiveField_compute(
                     [dm EXCEPT !.receptive_field.kernel_size = int(kernel_size)])
         IN  OutEst(c.dm, IF c.ret = "AssertionError" THEN "AssertionError" ELSE "None",
                    c.est)

Components == {"activity", "stimulus", "receptive_field"}

set_data(dm, c, f) ==
    CASE c = "activity" -> Activity_set_data(dm, f)
      [] c = "stimulus" -> Stimulus_set_data(dm, f)
      [] c = "receptive_field" -> ReceptiveField_set_data(dm, f)

compute(dm, c) ==
    CASE c = "activity" -> Activity_compute(dm)
      [] c = "receptive_field" -> ReceptiveField_compute(dm)

reset_state(dm, c) ==
    CASE c = "activity" -> Activity_reset_state(dm)
      [] c = "stimulus" -> Stimulus_reset_state(dm)
      [] c = "receptive_field" -> ReceptiveField_reset_state(dm)

(***************************************************************************)
(* The menu handlers (LoadMenu, ComputeMenu, ResetMenu) and the message    *)
(* box each one shows.                                                     *)
(***************************************************************************)
NoMessage == [kind |-> "none", text |-> <<>>]
Information(t) == [kind |-> "information", text |-> <<t>>]
Critical(text) == [kind |-> "critical", text |-> text]
\* An exception no handler catches leaves the slot
Uncaught(e) == [kind |-> "uncaught", text |-> <<e>>]

UnknownError == "Unknown error occurred."

\* QSpinBox range of the kernel size dialog
SpinMinimum == 1
SpinMaximum == 100
\* Bound on the kernel sizes tried in the dialog
MaxSpin == 11

DialogSizes == {k \in SpinMinimum..SpinMaximum : k <= MaxSpin}
\* -1, 0, 2, T and 0.5, 2.5
ManagerKernelSizes ==
    {PyInt(n) : n \in {-1, 0, 2, MIN_TIME_POINTS}} \cup {PyFloat(h) : h \in {1, 5}}

Handled(o, msg) == [dm |-> o.dm, ret |-> o.ret, est |-> o.est, message |-> msg]

\* LoadMenu.load_data once the file dialog returned f
load_data(dm, c, f) ==
    LET o == set_data(dm, c, f)
    IN  Handled(o,
            IF o.ret = "True" THEN Information("data loaded successfully.")
            ELSE IF o.ret = "False"
            THEN Critical(<<"Error loading data:">>
                          \o (IF o.dm[c].errors # <<>> THEN o.dm[c].errors
                              ELSE <<UnknownError>>))
            ELSE Uncaught(o.ret))

\* ComputeMenu.compute_data
compute_data(dm, c) ==
    LET o == compute(dm, c)
    IN  Handled(o,
            IF o.ret = "True" THEN Information("computed successfully.")
            ELSE IF o.ret = "False"
            THEN Critical(<<"Error computing:">>
                          \o (IF o.dm[c].errors # <<>> THEN o.dm[c].errors
                              ELSE <<UnknownError>>))
            ELSE Critical(<<"Unexpected error computing">>))

\* ComputeMenu.handle_receptive_field_compute once the dialog was accepted
\* with kernel_spin.value() = K
handle_receptive_field_compute(dm, K) ==
    LET u == ReceptiveField_update_kernel_size(dm, PyInt(K))
    IN  IF u.ret = "ValueError" THEN Handled(u, Critical(<<"Invalid kernel size">>))
        ELSE IF u.ret = "AssertionError" THEN Handled(u, Uncaught(u.ret))
        ELSE LET h == compute_data(u.dm, "receptive_field")
             IN  [h EXCEPT !.est = u.est \o @]

\* ResetMenu.reset_all
reset_allStimulusOnly(dm) == Stimulus_reset_state(dm)
reset_all(dm) ==
    ReceptiveField_reset_state(Stimulus_reset_state(Activity_reset_state(dm)))

(***************************************************************************)
(* The data manager as a state machine: last is the last call, what it     *)
(* returned or raised, and what it handed to the estimator; message is the *)
(* box the last menu handler showed.                                       *)
(***************************************************************************)
Last(op, c, o, ks) ==
    [op |-> op, component |-> c, ret |-> o.ret, kernel_size |-> ks, est |-> o.est,
     file |-> NonePath]
NoLast ==
    [op |-> "none", component |-> "none", ret |-> "none", kernel_size |-> PyInt(0),
     est |-> <<>>, file |-> NonePath]

\* The 'Cannot set ...' branch appends to errors without a reset.
ErrorsBounded(dm, c) ==
    /\ (c = "activity" /\ dm.receptive_field.loaded) => Len(dm.activity.errors) < MaxErrors
    /\ (c = "receptive_field" /\ dm.activity.loaded) =>
          Len(dm.receptive_field.errors) < MaxErrors

\* component.set_data(f), called directly
SetData(c, f) ==
    /\ ErrorsBounded(data_manager, c)
    /\ LET o == set_data(data_manager, c, f)
       IN  /\ data_manager' = o.dm
           /\ last' = [Last("set_data", c, o, PyInt(0)) EXCEPT !.file = f.name]
    /\ message' = NoMessage
    /\ UNCHANGED coreVars
    /\ UNCHANGED processorVars
    /\ UNCHANGED plotVars

\* Load > component, enabled while the component is available
LoadData(c, f) ==
    /\ data_manager[c].available
    /\ ErrorsBounded(data_manager, c)
    /\ LET h == load_data(data_manager, c, f)
       IN  /\ data_manager' = h.dm
           /\ last' = [Last("load_data", c, h, PyInt(0)) EXCEPT !.file = f.name]
           /\ message' = h.message
    /\ UNCHANGED coreVars
    /\ UNCHANGED processorVars
    /\ UNCHANGED plotVars

\* component.compute(), called directly
Compute(c) ==
    /\ LET o == compute(data_manager, c)
       IN  /\ data_manager' = o.dm
           /\ last' = Last("compute", c, o, PyInt(0))
    /\ message' = NoMessage
    /\ UNCHANGED coreVars
    /\ UNCHANGED processorVars
    /\ UNCHANGED plotVars

\* Compute > Activity, enabled while activity is computable
ComputeActivity ==
    /\ data_manager.activity.computable
    /\ LET h == compute_data(data_manager, "activity")
       IN  /\ data_manager' = h.dm
           /\ last' = Last("compute_data", "activity", h, PyInt(0))
           /\ message' = h.message
    /\ UNCHANGED coreVars
    /\ UNCHANGED processorVars
    /\ UNCHANGED plotVars

\* receptive_field.update_kernel_size(kernel_size), called directly
UpdateKernelSize(kernel_size) ==
    /\ LET o == ReceptiveField_update_kernel_size(data_manager, kernel_size)
       IN  /\ data_manager' = o.dm
           /\ last' = Last("update_kernel_size", "receptive_field", o, kernel_size)
    /\ message' = NoMessage
    /\ UNCHANGED coreVars
    /\ UNCHANGED processorVars
    /\ UNCHANGED plotVars

\* Compute > Receptive Field, enabled while the receptive field is computable
ComputeReceptiveField(K) ==
    /\ data_manager.receptive_field.computable
    /\ LET h == handle_receptive_field_compute(data_manager, K)
       IN  /\ data_manager' = h.dm
           /\ last' = Last("handle_receptive_field_compute", "receptive_field", h, PyInt(K))
           /\ message' = h.message
    /\ UNCHANGED coreVars
    /\ UNCHANGED processorVars
    /\ UNCHANGED plotVars

\* component.reset_state(), called directly
ResetState(c) ==
    /\ data_manager' = reset_state(data_manager, c)
    /\ last' = Last("reset_state", c, Out(data_manager, "None"), PyInt(0))
    /\ message' = NoMessage
    /\ UNCHANGED coreVars
    /\ UNCHANGED processorVars
    /\ UNCHANGED plotVars

\* Reset > Reset All Data, confirmed
ResetAll ==
    /\ data_manager' = reset_all(data_manager)
    /\ last' = Last("reset_all", "none", Out(data_manager, "None"), PyInt(0))
    /\ message' = Information("All data has been reset successfully.")
    /\ UNCHANGED coreVars
    /\ UNCHANGED processorVars
    /\ UNCHANGED plotVars

(***************************************************************************)
(* ReceptiveFieldProcessor (receptiviz): validate_file, set_activity,      *)
(* set_stimulus, reset_state.  A message is the tuple of its words, so     *)
(* that `phrase in message` is a search for the words of the phrase.       *)
(***************************************************************************)
\* str.lower() of a file suffix
Lower(suffix) == IF suffix = ".NPY" THEN ".npy" ELSE suffix

\* The paths a caller can name.  nan: the array holds NaN values;
\* loadable: np.load reads the file.
ProcessorFiles ==
    LET F(name, suffix, shape, nan) ==
            [name |-> name, suffix |-> suffix, exists |-> TRUE, isfile |-> TRUE,
             loadable |-> TRUE, nan |-> nan, array |-> MkArray(shape, "ramp")]
        T0 == MIN_TIME_POINTS
    IN  {[F("missing", ".npy", <<T0>>, FALSE) EXCEPT !.exists = FALSE, !.isfile = FALSE],
         [F("folder", ".npy", <<T0>>, FALSE) EXCEPT !.isfile = FALSE],
         [F("corrupt", ".npy", <<T0>>, FALSE) EXCEPT !.loadable = FALSE],
         F("notes", ".txt", <<T0>>, FALSE),
         F("upper", ".NPY", <<T0>>, FALSE),
         F("nan", ".npy", <<T0>>, TRUE),
         F("scalar", ".npy", <<>>, FALSE),
         F("t9", ".npy", <<T0 - 1>>, FALSE),
         F("t10", ".npy", <<T0>>, FALSE),
         F("t12", ".npy", <<T0 + 2>>, FALSE),
         F("t9x2", ".npy", <<T0 - 1, 2>>, FALSE),
         F("t10x2", ".npy", <<T0, 2>>, FALSE),
         F("t12x1x2", ".npy", <<T0 + 2, 1, 2>>, FALSE)}

FileTypes == {"activity", "stimulus"}

Paren(n) == "(" \o ToString(n) \o ")"

MsgNotFound(f) == <<"File", "not", "found:", f.name \o f.suffix>>
MsgNotAFile(f) == <<"Not", "a", "file:", f.name \o f.suffix>>
MsgNotNumpy == <<"Not", "a", "NumPy", "file", "(must", "end", "with", ".npy)">>
MsgNaN == <<"Array", "contains", "NaN", "values">>
MsgErrorLoading(e) == <<"Error", "loading", "file:", e>>
MsgActivity1D(data) ==
    <<"Activity", "array", "must", "be", "1D,", "got", ToString(ndim(data)) \o "D",
      "with", "shape", ToString(data.shape)>>
MsgActivitySmall(data) ==
    <<"Activity", "array", "too", "small", "(length", ToString(data.shape[1]) \o "),",
      "must", "have", "at", "least", ToString(MIN_TIME_POINTS), "time", "points">>
MsgActivityLength(data, stimulus) ==
    <<"Activity", "length", Paren(data.shape[1]), "must", "match", "stimulus", "time",
      "dimension", Paren(stimulus.shape[1])>>
MsgStimulusSmall(data) ==
    <<"Stimulus", "time", "dimension", "too", "small", "(only", ToString(data.shape[1]),
      "time", "points),", "must", "have", "at", "least", ToString(MIN_TIME_POINTS),
      "time", "points">>
MsgStimulusLength(data, activity) ==
    <<"Stimulus", "time", "dimension", Paren(data.shape[1]), "must", "match", "activity",
      "length", Paren(activity.shape[1])>>

\* The dicts of dimension names; {} is the record of no fields
NoDims == <<>>
ActivityDims == [dims |-> <<"time">>, units |-> <<"frames">>]
DimName(i) ==
    IF i = 0 THEN "time" ELSE IF i = 1 THEN "height" ELSE IF i = 2 THEN "width"
    ELSE "dim_" \o ToString(i)
DimUnit(i) == IF i = 0 THEN "frames" ELSE IF i \in {1, 2} THEN "pixels" ELSE "units"
StimulusDims(data) ==
    [dims |-> [i \in 1..ndim(data) |-> DimName(i - 1)],
     units |-> [i \in 1..ndim(data) |-> DimUnit(i - 1)],
     shape |-> data.shape]

\* ReceptiveFieldProcessor.reset_state
ProcessorDefaults ==
    [activity |-> None, stimulus |-> None, errors |-> <<>>, activity_dims |-> NoDims,
     stimulus_dims |-> NoDims, stimulus_ndim |-> 0]

\* return is_valid, errors, data, and the processor after the call
Triple(proc, is_valid, errors, data) ==
    [processor |-> proc, is_valid |-> is_valid, errors |-> errors, data |-> data]
Rejected(proc, msg) == Triple(proc, FALSE, <<msg>>, None)

\* np.isnan(data).any()
HasNaNUnchecked(f) == FALSE
HasNaN(f) == f.nan

PActivityBranch(proc, data) ==
    IF ndim(data) # 1 THEN Rejected(proc, MsgActivity1D(data))
    ELSE IF data.shape[1] < MIN_TIME_POINTS THEN Rejected(proc, MsgActivitySmall(data))
    ELSE LET p1 == [proc EXCEPT !.activity_dims = ActivityDims]
         IN  IF p1.stimulus # None /\ data.shape[1] # p1.stimulus.shape[1]
             THEN Rejected(p1, MsgActivityLength(data, p1.stimulus))
             ELSE Triple(p1, TRUE, <<>>, data)

PStimulusBranch(proc, data) ==
    \* data.shape[0] of a 0-d array raises IndexError, caught by the except
    IF ndim(data) = 0
    THEN Rejected(proc, MsgErrorLoading("tuple index out of range"))
    ELSE IF data.shape[1] < MIN_TIME_POINTS THEN Rejected(proc, MsgStimulusSmall(data))
    ELSE LET p1 == [proc EXCEPT !.stimulus_ndim = ndim(data),
                                !.stimulus_dims = StimulusDims(data)]
         IN  IF p1.activity # None /\ data.shape[1] # p1.activity.shape[1]
             THEN Rejected(p1, MsgStimulusLength(data, p1.activity))
             ELSE Triple(p1, TRUE, <<>>, data)

validate_file(proc, f, file_type) ==
    IF ~f.exists THEN Rejected(proc, MsgNotFound(f))
    ELSE IF ~f.isfile THEN Rejected(proc, MsgNotAFile(f))
    ELSE IF Lower(f.suffix) # ".npy" THEN Rejected(proc, MsgNotNumpy)
    ELSE IF ~f.loadable THEN Rejected(proc, MsgErrorLoading("cannot load"))
    ELSE IF HasNaN(f) THEN Rejected(proc, MsgNaN)
    ELSE IF file_type = "activity" THEN PActivityBranch(proc, f.array)
    ELSE IF file_type = "stimulus" THEN PStimulusBranch(proc, f.array)
    ELSE Triple(proc, TRUE, <<>>, f.array)

set_activity(proc, activity) == [proc EXCEPT !.activity = activity]
set_stimulus(proc, stimulus) ==
    [proc EXCEPT !.stimulus = stimulus, !.stimulus_ndim = ndim(stimulus)]

\* `phrase in error`
Contains(msg, phrase) ==
    \E i \in 0..(Len(msg) - Len(phrase)) : SubSeq(msg, i + 1, i + Len(phrase)) = phrase

NoValidation ==
    [file_type |-> "none", file |-> "none", is_valid |-> FALSE, errors |-> <<>>,
     data |-> None, kept |-> FALSE]

\* is_valid, errors, data = processor.validate_file(path, file_type)
ValidateFile(f, file_type) ==
    /\ LET r == validate_file(processor, f, file_type)
       IN  /\ processor' = r.processor
           /\ validated' = [file_type |-> file_type, file |-> f.name,
                            is_valid |-> r.is_valid, errors |-> r.errors,
                            data |-> r.data, kept |-> FALSE]
    /\ UNCHANGED <<coreVars, managerVars, plotVars>>

\* The caller keeps the data of a valid file: set_activity / set_stimulus
KeepValidated ==
    /\ validated.is_valid
    /\ ~validated.kept
    /\ processor' = IF validated.file_type = "activity"
                    THEN set_activity(processor, validated.data)
                    ELSE set_stimulus(processor, validated.data)
    /\ validated' = [validated EXCEPT !.kept = TRUE]
    /\ UNCHANGED <<coreVars, managerVars, plotVars>>

\* processor.reset_state()
ProcessorReset ==
    /\ processor' = ProcessorDefaults
    /\ validated' = NoValidation
    /\ UNCHANGED <<coreVars, managerVars, plotVars>>

InitProcessor ==
    /\ processor = ProcessorDefaults
    /\ validated = NoValidation

(***************************************************************************)
(* PlotManager: the selection of axes, ranges and slices of the array on   *)
(* show.  A dict is a function on its keys; {} is the empty function.  An  *)
(* element of the normalized array is the fraction <<numerator,            *)
(* denominator>>.                                                          *)
(***************************************************************************)
MAX_RANGE == 1000

\* Floating-point values that are no numbers, as elements of an array
NaN == 1000003
PosInf == 1000001
NegInf == 1000002
IsNaN(x) == x = NaN
IsInf(x) == x \in {PosInf, NegInf}

\* The data components a plot can be made of
PlotComponents ==
    LET C(name, shape, data) == [name |-> name, data |-> [shape |-> shape, data |-> data]]
    IN  {C("Activity", <<3, 2>>, <<1, 2, 3, 4, 5, 6>>),
         C("Activity", <<2, 2>>, <<1, NaN, PosInf, 4>>),
         C("Activity", <<2, 2>>, <<7, 7, 7, 7>>),
         C("Stimulus", <<2, 2, 3>>, <<1, 2, 3, 4, 5, 6, 7, 8, 9, 10, 11, 12>>),
         C("Stimulus", <<2, 1, 2>>, <<NegInf, 2, 3, 4>>),
         C("Receptive Field", <<2, 1, 2, 2>>, <<1, 2, 3, 4, 5, 6, 7, 8>>),
         C("Receptive Field", <<2, 2, 2>>, <<1, 2, 3, 4, 5, 6, 7, NaN>>),
         C("Other", <<2, 2>>, <<1, 2, 3, 4>>)}

PlotNames == {"Receptive Field", "Activity", "Stimulus"}

RECURSIVE MinOf(_, _), MaxOf(_, _)
\* np.min, np.max over the first n elements
MinOf(d, n) == IF n = 1 THEN d[1] ELSE LET m == MinOf(d, n - 1) IN IF d[n] < m THEN d[n] ELSE m
MaxOf(d, n) == IF n = 1 THEN d[1] ELSE LET m == MaxOf(d, n - 1) IN IF d[n] > m THEN d[n] ELSE m

\* data[np.isnan(data)] = 0; data[np.isinf(data)] = 0: written into the
\* array that was passed
ReplaceInvalid(data) ==
    IF \E i \in 1..Len(data.data) : IsNaN(data.data[i]) \/ IsInf(data.data[i])
    THEN [data EXCEPT !.data =
             Stored([i \in 1..Len(data.data) |->
                 IF IsNaN(data.data[i]) \/ IsInf(data.data[i]) THEN 0 ELSE data.data[i]])]
    ELSE data

\* normalize_data: the array passed as the call leaves it (passed), and
\* self.data, (data - min) / (max - min) * 15 as a new array
normalize_data(data) ==
    LET d1 == ReplaceInvalid(data)
        min_val == MinOf(d1.data, Len(d1.data))
        max_val == MaxOf(d1.data, Len(d1.data))
    IN  [passed |-> d1,
         data |-> [shape |-> d1.shape,
                   data |-> Stored([i \in 1..Len(d1.data) |->
                               IF min_val # max_val
                               THEN <<(d1.data[i] - min_val) * 15, max_val - min_val>>
                               ELSE <<d1.data[i] * 15, 1>>])]]

\* The keys and the elements of a list
Elements(list) == {list[i] : i \in 1..Len(list)}

\* d[k] = v of a dict
DictSet(d, k, v) == [x \in (DOMAIN d) \cup {k} |-> IF x = k THEN v ELSE d[x]]

NoPlotManager ==
    [name |-> "none", data |-> None, ndim |-> 0, shape |-> <<>>, selected_axes |-> <<>>,
     slice_axes |-> <<>>, ranges |-> <<>>, slices |-> <<>>, plot_data |-> None]

PlotOut(pm, exc) == [pm |-> pm, exc |-> exc]

\* The number of indices slice(lo, hi + 1) takes from an axis of length size
SliceExtent(lo, hi, size) ==
    LET stop == IF hi + 1 > size THEN size ELSE hi + 1
        start == IF lo > size THEN size ELSE lo
    IN  IF stop > start THEN stop - start ELSE 0

\* The element of data at the index idx, a function on the axes
ElementAt(data, idx) ==
    LET n == Len(data.shape)
    IN  data.data[1 + SumTo([a \in 0..(n - 1) |->
                                idx[a] * Prod(SubSeq(data.shape, a + 2, n))], n)]

\* update_plot_data: np.transpose(self.data, axes=selected_axes + slice_axes)
\* indexed by the ranges of the selected axes and the slices of the others
update_plot_data(pm) ==
    LET order == pm.selected_axes \o pm.slice_axes
        size(a) == pm.data.shape[a + 1]
    IN  IF Len(order) # pm.ndim \/ Elements(order) # 0..(pm.ndim - 1)
        THEN PlotOut(pm, "ValueError")
        ELSE IF \E a \in Elements(pm.selected_axes) : a \notin DOMAIN pm.ranges
        THEN PlotOut(pm, "KeyError")
        ELSE IF \E a \in Elements(pm.slice_axes) : a \notin DOMAIN pm.slices
        THEN PlotOut(pm, "KeyError")
        ELSE LET a1 == pm.selected_axes[1]
                 a2 == pm.selected_axes[2]
                 e1 == SliceExtent(pm.ranges[a1][1], pm.ranges[a1][2], size(a1))
                 e2 == SliceExtent(pm.ranges[a2][1], pm.ranges[a2][2], size(a2))
                 idx(i, j) == [a \in 0..(pm.ndim - 1) |->
                                 IF a = a1 THEN pm.ranges[a1][1] + i
                                 ELSE IF a = a2 THEN pm.ranges[a2][1] + j
                                 ELSE pm.slices[a]]
             IN  PlotOut([pm EXCEPT !.plot_data =
                             [shape |-> <<e1, e2>>,
                              data |-> Stored([n \in 1..(e1 * e2) |->
                                          ElementAt(pm.data,
                                                    idx((n - 1) \div e2, (n - 1) % e2))])]],
                         "none")

\* min(self.data.shape[i] - 1, MAX_RANGE)
FullRange(pm, i) ==
    <<0, IF pm.data.shape[i + 1] - 1 < MAX_RANGE THEN pm.data.shape[i + 1] - 1
         ELSE MAX_RANGE>>

update_axes(pm, axes) ==
    IF Len(axes) # 2 THEN PlotOut(pm, "AssertionError")
    ELSE LET p1 == [pm EXCEPT
                       !.selected_axes = axes,
                       !.slice_axes = SelectSeq([i \in 1..pm.ndim |-> i - 1],
                                                LAMBDA i : i \notin Elements(axes))]
         IN  \* self.data.shape[i] of an axis the array does not have
             IF \E a \in Elements(axes) : a >= pm.ndim
             THEN PlotOut(p1, "IndexError")
             ELSE update_plot_data(
                      [p1 EXCEPT !.ranges = [i \in Elements(axes) |-> FullRange(pm, i)],
                                 !.slices = [i \in Elements(p1.slice_axes) |-> 0]])

\* `max_val <= self.shape[axis][1]` of update_ranges
RangeWithin(pm, min_val, max_val, axis) ==
    min_val >= pm.shape[axis][1] /\ max_val <= pm.shape[axis][2]

update_ranges(pm, axis, min_val, max_val) ==
    IF axis \notin Elements(pm.selected_axes) THEN PlotOut(pm, "AssertionError")
    ELSE IF ~(min_val <= max_val) THEN PlotOut(pm, "AssertionError")
    ELSE IF axis \notin DOMAIN pm.shape THEN PlotOut(pm, "KeyError")
    ELSE IF ~RangeWithin(pm, min_val, max_val, axis) THEN PlotOut(pm, "AssertionError")
    ELSE update_plot_data([pm EXCEPT !.ranges = DictSet(@, axis, <<min_val, max_val>>)])

update_slice(pm, axis, value) ==
    IF axis \notin Elements(pm.slice_axes) THEN PlotOut(pm, "AssertionError")
    ELSE IF ~(value >= pm.shape[axis][1] /\ value < pm.shape[axis][2])
    THEN PlotOut(pm, "AssertionError")
    ELSE update_plot_data([pm EXCEPT !.slices = DictSet(@, axis, value)])

\* The axes a new plot shows
DefaultAxes(name, nd) ==
    IF name = "Activity" THEN <<0, 1>>
    ELSE IF name = "Stimulus" THEN (IF nd >= 3 THEN <<1, 2>> ELSE <<0, 1>>)
    ELSE (IF nd >= 4 THEN <<2, 3>> ELSE <<0, 2>>)

\* PlotManager(manager): the manager's array as the constructor leaves it,
\* and the plot manager, or none when the constructor raised
PlotManager_init(manager) ==
    IF manager.name \notin PlotNames
    THEN [passed |-> manager.data, pm |-> NoPlotManager, exc |-> "AssertionError"]
    ELSE LET nd == normalize_data(manager.data)
             p0 == [NoPlotManager EXCEPT
                       !.name = manager.name,
                       !.data = nd.data,
                       !.ndim = ndim(nd.data),
                       !.shape = [i \in 0..(ndim(nd.data) - 1) |->
                                     <<0, nd.data.shape[i + 1]>>]]
             o == update_axes(p0, DefaultAxes(manager.name, p0.ndim))
         IN  [passed |-> nd.passed,
              pm |-> IF o.exc = "none" THEN o.pm ELSE NoPlotManager,
              exc |-> o.exc]

\* The lists of axes a caller passes: two different axes of the array (the
\* axis selector refuses one axis twice), and beside them one axis alone
AxisLists(nd) ==
    {ab \in (0..(nd - 1)) \X (0..(nd - 1)) : ab[1] # ab[2]} \cup {<<0>>}

NoPlotCall == [op |-> "none", exc |-> "none", given |-> None]

\* self.plot_manager = PlotManager(data_component)
NewPlotManager(c) ==
    /\ plot_manager = NoPlotManager
    /\ LET o == PlotManager_init(c)
       IN  /\ plot_manager' = o.pm
           /\ component' = [c EXCEPT !.data = o.passed]
           /\ plot_last' = [op |-> "PlotManager", exc |-> o.exc, given |-> c.data]
    /\ UNCHANGED <<coreVars, managerVars, processorVars>>

\* plot_manager.update_axes(axes)
UpdateAxes(axes) ==
    /\ plot_manager # NoPlotManager
    /\ LET o == update_axes(plot_manager, axes)
       IN  /\ plot_manager' = o.pm
           /\ plot_last' = [plot_last EXCEPT !.op = "update_axes", !.exc = o.exc]
    /\ UNCHANGED component
    /\ UNCHANGED <<coreVars, managerVars, processorVars>>

\* plot_manager.update_ranges(axis, min_val, max_val)
UpdateRanges(axis, min_val, max_val) ==
    /\ plot_manager # NoPlotManager
    /\ LET o == update_ranges(plot_manager, axis, min_val, max_val)
       IN  /\ plot_manager' = o.pm
           /\ plot_last' = [plot_last EXCEPT !.op = "update_ranges", !.exc = o.exc]
    /\ UNCHANGED component
    /\ UNCHANGED <<coreVars, managerVars, processorVars>>

\* plot_manager.update_slice(axis, value)
UpdateSlice(axis, value) ==
    /\ plot_manager # NoPlotManager
    /\ LET o == update_slice(plot_manager, axis, value)
       IN  /\ plot_manager' = o.pm
           /\ plot_last' = [plot_last EXCEPT !.op = "update_slice", !.exc = o.exc]
    /\ UNCHANGED component
    /\ UNCHANGED <<coreVars, managerVars, processorVars>>

MaxIndex == 3

InitPlot ==
    /\ plot_manager = NoPlotManager
    /\ component = [name |-> "none", data |-> None]
    /\ plot_last = NoPlotCall

InitCore ==
    /\ call = NoCall
    /\ result = NoResult
    /\ call2 = NoCall
    /\ result2 = NoResult
    /\ call3 = NoCall
    /\ result3 = NoResult
    /\ args = NoMemory

\* EncoderDataManager(): each component is constructed by its reset_state
InitManager ==
    /\ data_manager = [activity |-> ActivityDefaults, stimulus |-> StimulusDefaults,
                       receptive_field |-> ReceptiveFieldDefaults]
    /\ last = NoLast
    /\ message = NoMessage

Init == InitCore /\ InitManager /\ InitProcessor /\ InitPlot

NextCore ==
    \/ \E S \in Stimuli, W \in Kernels : Encode(S, W)
    \/ \E t1 \in 0..(MaxT - 1), p \in {"mixed", "impulse"} :
            EncodePerturbed(t1, p)
    \/ \E S \in Stimuli, A \in Activities, ks \in KernelSizes : Estimate(S, A, ks)
    \/ EstimateEncoded
    \/ EncodeFaster

SpecCore == Init /\ [][NextCore]_vars

\* encoder on sums and multiples of the arguments of earlier calls
NextLinear ==
    \/ \E S \in Stimuli, W \in Kernels : Encode(S, W)
    \/ \E S2 \in Stimuli : EncodeOtherStimulus(S2)
    \/ \E W2 \in Kernels : EncodeOtherKernel(W2)
    \/ EncodeSumStimuli
    \/ EncodeSumKernels
    \/ \E c \in Scalars : EncodeScaled(c)

SpecLinear == Init /\ [][NextLinear]_vars

\* The components' methods, called in any order.
NextManager ==
    \/ \E c \in Components, f \in Files : SetData(c, f)
    \/ \E c \in {"activity", "receptive_field"} : Compute(c)
    \/ \E ks \in ManagerKernelSizes : UpdateKernelSize(ks)
    \/ \E c \in Components : ResetState(c)

SpecManager == Init /\ [][NextManager]_vars

\* The application: the menus drive the data manager.
NextGui ==
    \/ \E c \in Components, f \in Files : LoadData(c, f)
    \/ ComputeActivity
    \/ \E K \in DialogSizes : ComputeReceptiveField(K)
    \/ ResetAll

SpecGui == Init /\ [][NextGui]_vars

\* The file selection widgets drive the processor.
NextProcessor ==
    \/ \E f \in ProcessorFiles, t \in FileTypes : ValidateFile(f, t)
    \/ KeepValidated
    \/ ProcessorReset

SpecProcessor == Init /\ [][NextProcessor]_vars

\* The plot widgets drive one plot manager.
NextPlot ==
    \/ \E c \in PlotComponents : NewPlotManager(c)
    \/ \E axes \in AxisLists(plot_manager.ndim) : UpdateAxes(axes)
    \/ \E axis \in 0..plot_manager.ndim, lo \in (-1)..MaxIndex, hi \in (-1)..MaxIndex :
            UpdateRanges(axis, lo, hi)
    \/ \E axis \in 0..plot_manager.ndim, value \in (-1)..MaxIndex :
            UpdateSlice(axis, value)

SpecPlot == Init /\ [][NextPlot]_vars

(***************************************************************************)
(* Properties of the core functions (under SpecCore).                      *)
(***************************************************************************)
\* a[t, n] of a 2-D array, t and n from 0
At2(a, t, n) == a.data[t * a.shape[2] + n + 1]

\* sum over k in 0..K-1 with t - k >= 0 and over the spatial positions d of
\* S[t - k, d] * W[K - 1 - k, n, d]
ConvolutionSum(S, W, t, n) ==
    LET K == W.shape[1]
        N == W.shape[2]
        D == Prod(ShapeFrom(S, 1))
    IN  SumTo([k \in 0..(K - 1) |->
                 IF t - k < 0 THEN 0
                 ELSE SumTo([d \in 0..(D - 1) |->
                               S.data[(t - k) * D + d + 1]
                               * W.data[((K - 1 - k) * N + n) * D + d + 1]], D)],
              K)

\* C1: every activity encoder returns is the causal convolution of the
\* stimulus with the kernel, A[t, n] = sum_k sum_spatial S[t-k] * W[K-1-k, n],
\* lags before the start contributing zero; S = [1..6] with
\* W = [0.5, 0.25, 0.25] gives [0.25, 0.75, 1.75, 2.75, 3.75, 4.75].
C1_EncoderIsCausalConvolution ==
    (call.fn = "encoder" /\ result.ok) =>
        /\ \A t \in 0..(call.stimulus.shape[1] - 1), n \in 0..(call.rf.shape[2] - 1) :
              At2(result.value, t, n) = ConvolutionSum(call.stimulus, call.rf, t, n)
        /\ (call.stimulus = ExampleS /\ call.rf = ExampleW) => result.value = ExampleA

C1_Witness ==
    /\ call = EncoderCall(ExampleS, ExampleW)
    /\ result = Return(ExampleA)

\* S and S2 hold the same samples at every time t <= t0
AgreeUpTo(S, S2, t0) ==
    /\ S.shape = S2.shape
    /\ \A i \in 1..((t0 + 1) * Prod(ShapeFrom(S, 1))) : S.data[i] = S2.data[i]

\* C2: two stimuli of one shape that agree at every time t <= t0 give, with
\* the same kernel, the same encoder output at time t0.
C2_EncoderCausality ==
    (call.fn = "encoder" /\ call2.fn = "encoder" /\ call.rf = call2.rf) =>
        /\ result.ok = result2.ok
        /\ result.ok =>
              \A t0 \in 0..(call.stimulus.shape[1] - 1) :
                 AgreeUpTo(call.stimulus, call2.stimulus, t0) =>
                    \A n \in 0..(call.rf.shape[2] - 1) :
                       At2(result.value, t0, n) = At2(result2.value, t0, n)

\* The stimuli part ways after time 0, the outputs agree at time 0 and differ later.
C2_Witness ==
    /\ call.fn = "encoder"
    /\ call2.fn = "encoder"
    /\ result.ok
    /\ result2.ok
    /\ AgreeUpTo(call.stimulus, call2.stimulus, 0)
    /\ ~AgreeUpTo(call.stimulus, call2.stimulus, 1)
    /\ At2(result.value, 0, 0) = At2(result2.value, 0, 0)
    /\ At2(result.value, 0, 0) # 0
    /\ result.value # result2.value

\* A stimulus without spatial axes whose first sample is not zero: the K
\* lagged copies of it are linearly independent (the top K rows of the
\* lagged design matrix are triangular with a non-zero diagonal).
LaggedDesignFullRank(S, K) == ndim(S) = 1 /\ S.data[1] # 0 /\ K <= S.shape[1]

\* C3: round trip: for a stimulus whose lagged design matrix has full
\* column rank and a kernel W of length K < T,
\* receptive_field(S, encoder(S, W), K) returns W.
C3_RoundTrip ==
    (/\ call.fn = "encoder"
     /\ result.ok
     /\ call2.fn = "receptive_field"
     /\ LaggedDesignFullRank(call.stimulus, call.rf.shape[1]))
    => (result2.ok /\ result2.value = call.rf)

\* C4 as stated: encoder returns an activity for every kernel of matching
\* rank and spatial shape with 1 <= K <= T, K = T included.
C4_AcceptsUpToT ==
    (/\ call.fn = "encoder"
     /\ Len(call.rf.shape) = Len(call.stimulus.shape) + 1
     /\ ShapeFrom(call.rf, 2) = ShapeFrom(call.stimulus, 1)
     /\ 1 <= call.rf.shape[1]
     /\ call.rf.shape[1] <= call.stimulus.shape[1])
    => result.ok

\* C4 amended: encoder returns an activity of T rows for every kernel of
\* matching rank and spatial shape with 1 <= K < T; with K = T it raises
\* the assertion on the lengths.
C4_AcceptsBelowT ==
    (/\ call.fn = "encoder"
     /\ Len(call.rf.shape) = Len(call.stimulus.shape) + 1
     /\ ShapeFrom(call.rf, 2) = ShapeFrom(call.stimulus, 1)
     /\ 1 <= call.rf.shape[1])
    => /\ call.rf.shape[1] < call.stimulus.shape[1] =>
             (result.ok /\ result.value.shape[1] = call.stimulus.shape[1])
       /\ call.rf.shape[1] = call.stimulus.shape[1] =>
             result = Raise("AssertionError", MsgLength)

C4_Witness ==
    /\ call.fn = "encoder"
    /\ ndim(call.stimulus) = 2
    /\ call.rf.shape[1] + 1 = call.stimulus.shape[1]
    /\ call.rf.shape[1] >= 2
    /\ result.ok
    /\ result.value.shape[1] = call.stimulus.shape[1]

\* C5: encoder raises, and returns nothing, when (a) W has not exactly one
\* more axis than S, (b) the spatial shapes differ, (c) K > T; the message
\* raised names a condition that failed, and the three messages differ.
C5_EncoderRejects ==
    call.fn = "encoder" =>
        LET S == call.stimulus
            W == call.rf
            rankBad == Len(W.shape) # Len(S.shape) + 1
            spatialBad == ShapeFrom(S, 1) # ShapeFrom(W, 2)
            lengthBad == W.shape[1] > S.shape[1]
        IN  /\ (rankBad \/ spatialBad \/ lengthBad) =>
                  (~result.ok /\ result.exc = "AssertionError" /\ result.value = None)
            /\ rankBad => result.msg = MsgDims
            /\ (~rankBad /\ spatialBad) => result.msg = MsgSpatial
            /\ (~rankBad /\ ~spatialBad /\ lengthBad) => result.msg = MsgLength
            /\ result.msg = MsgDims => rankBad
            /\ result.msg = MsgSpatial => spatialBad
            /\ Cardinality({MsgDims, MsgSpatial, MsgLength}) = 3

\* Ranks match, the spatial shapes (2) and (3) do not, and K < T.
C5_Witness ==
    /\ call.fn = "encoder"
    /\ ndim(call.stimulus) = 2
    /\ ndim(call.rf) = 3
    /\ ShapeFrom(call.stimulus, 1) # ShapeFrom(call.rf, 2)
    /\ call.rf.shape[1] < call.stimulus.shape[1]
    /\ result = Raise("AssertionError", MsgSpatial)

\* C6: receptive_field raises at its preconditions, and returns no kernel,
\* when activity is not 2-D, when stimulus and activity differ in time
\* length, and when kernel_size is greater than T (no clipping to T).
C6_EstimatorRejects ==
    call.fn = "receptive_field" =>
        LET S == call.stimulus
            A == call.activity
            not2D == Len(A.shape) # 2
            timeBad == S.shape[1] # A.shape[1]
            tooLong == call.kernel_size.twice > 2 * S.shape[1]
        IN  /\ not2D => result = Raise("AssertionError", MsgActivity2D)
            /\ (~not2D /\ timeBad) => result = Raise("AssertionError", MsgTime)
            /\ (~not2D /\ ~timeBad /\ tooLong) => result = Raise("AssertionError", MsgKernel)
            /\ (not2D \/ timeBad \/ tooLong) => result.value = None

C6_Witness ==
    /\ call.fn = "receptive_field"
    /\ ndim(call.activity) = 2
    /\ call.stimulus.shape[1] = call.activity.shape[1]
    /\ call.kernel_size = PyInt(call.stimulus.shape[1] + 1)
    /\ result = Raise("AssertionError", MsgKernel)

(***************************************************************************)
(* Properties of the data manager (under SpecManager) and of the menus     *)
(* (under SpecGui).                                                        *)
(***************************************************************************)
\* C7: update_kernel_size called with a kernel size that is non-positive or
\* not integral raises, and hands no kernel size to the estimator.
C7_KernelSizeRejected ==
    (/\ last.op = "update_kernel_size"
     /\ (last.kernel_size.twice <= 0 \/ ~IsIntegral(last.kernel_size)))
    => (last.ret \in {"ValueError", "AssertionError"} /\ last.est = <<>>)

C9_FalseLeavesErrors ==
    (last.op \in {"set_data", "compute"} /\ last.ret = "False")
    => data_manager[last.component].errors # <<>>

\* C10: a component flagged computed holds the result of the core function
\* on the stimulus and the counterpart the manager holds now.
C10_ComputedIsFresh ==
    /\ data_manager.activity.computed =>
          /\ data_manager.stimulus.loaded
          /\ data_manager.receptive_field.loaded
          /\ LET r == encoder(data_manager.stimulus.data,
                              data_manager.receptive_field.data)
             IN  r.ok /\ data_manager.activity.data = r.value
    /\ data_manager.receptive_field.computed =>
          /\ data_manager.stimulus.loaded
          /\ data_manager.activity.loaded
          /\ LET r == receptive_field(data_manager.stimulus.data,
                                      data_manager.activity.data,
                                      PyInt(data_manager.receptive_field.kernel_size))
             IN  r.ok /\ data_manager.receptive_field.data = r.value

\* C11: the loaded components satisfy the shape invariants: a loaded
\* stimulus and a loaded activity have the same number of time points, and
\* a loaded receptive field has the spatial shape (shape[2:]) of a loaded
\* stimulus (shape[1:]).
C11_LoadedShapesAgree ==
    LET s == data_manager.stimulus
        a == data_manager.activity
        w == data_manager.receptive_field
    IN  /\ (s.loaded /\ a.loaded) => s.data.shape[1] = a.data.shape[1]
        /\ (s.loaded /\ w.loaded) => ShapeFrom(w.data, 2) = ShapeFrom(s.data, 1)

\* C12: when a receptive field and a stimulus are both loaded, the kernel
\* length K is at most the number T of time points of the stimulus.
C12_KernelWithinStimulus ==
    (data_manager.stimulus.loaded /\ data_manager.receptive_field.loaded)
    => data_manager.receptive_field.data.shape[1] <= data_manager.stimulus.data.shape[1]

\* The file f is compatible with what the manager holds besides the stimulus.
StimulusCompatible(dm, f) ==
    /\ dm.activity.loaded => dm.activity.data.shape[1] = f.array.shape[1]
    /\ dm.receptive_field.loaded =>
          ShapeFrom(dm.receptive_field.data, 2) = ShapeFrom(f.array, 1)

\* C13: a stimulus file of any spatial rank (1-D, 2-D or higher) with at
\* least 10 time points, compatible with what is loaded, is accepted and
\* held unchanged.
C13_StimulusAnyRank ==
    (/\ last.op = "set_data"
     /\ last.component = "stimulus"
     /\ FileNamed(last.file).exists
     /\ ndim(FileNamed(last.file).array) >= 1
     /\ FileNamed(last.file).array.shape[1] >= MIN_TIME_POINTS
     /\ StimulusCompatible(data_manager, FileNamed(last.file)))
    => /\ last.ret = "True"
       /\ data_manager.stimulus.loaded
       /\ data_manager.stimulus.data = FileNamed(last.file).array

\* f holds an array with fewer than MIN_TIME_POINTS time samples
TooShort(f) == f.exists /\ ndim(f.array) >= 1 /\ f.array.shape[1] < MIN_TIME_POINTS

\* C15: no stimulus or activity with fewer than 10 time samples is accepted:
\* validate_data appends an error and returns no data, set_data returns
\* False and the component is not loaded.
C15_ShortNeverAccepted ==
    /\ data_manager.stimulus.loaded =>
          data_manager.stimulus.data.shape[1] >= MIN_TIME_POINTS
    /\ data_manager.activity.loaded =>
          data_manager.activity.data.shape[1] >= MIN_TIME_POINTS
    /\ \A f \in {g \in Files : TooShort(g)} :
          /\ Stimulus_validate_data(data_manager, f).data = None
          /\ Len(Stimulus_validate_data(data_manager, f).dm.stimulus.errors)
                = Len(data_manager.stimulus.errors) + 1
          /\ Activity_validate_data(data_manager, f).data = None
          /\ Len(Activity_validate_data(data_manager, f).dm.activity.errors)
                = Len(data_manager.activity.errors) + 1
    /\ (/\ last.op = "set_data"
        /\ last.component \in {"stimulus", "activity"}
        /\ TooShort(FileNamed(last.file)))
       => (last.ret = "False" /\ ~data_manager[last.component].loaded)

\* set_data was called on the activity with a (9, 1) array, nothing else loaded.
C15_Witness ==
    /\ last.op = "set_data"
    /\ last.component = "activity"
    /\ last.file = "act_short.npy"
    /\ ~data_manager.receptive_field.loaded
    /\ ~data_manager.stimulus.loaded
    /\ last.ret = "False"
    /\ ~data_manager.activity.loaded


\* The file the last validate_file call named
ValidatedFile == CHOOSE f \in ProcessorFiles : f.name = validated.file

\* The file reaches the branch of its type: present, a .npy file, readable, no NaN
ReachesBranch(f) ==
    f.exists /\ f.isfile /\ Lower(f.suffix) = ".npy" /\ f.loadable /\ ~f.nan

\* C14: time lengths are checked in both load orders: a stimulus whose time
\* length differs from the activity that was set is rejected with an error
\* containing 'must match activity length', and an activity whose length
\* differs from the stimulus that was set is rejected with an error
\* containing 'must match stimulus length'.
C14_BothLoadOrders ==
    LET f == ValidatedFile
        data == f.array
        long == ndim(data) >= 1 /\ data.shape[1] >= MIN_TIME_POINTS
        Says(phrase) == \E i \in 1..Len(validated.errors) :
                            Contains(validated.errors[i], phrase)
    IN  (validated.file_type # "none" /\ ReachesBranch(f) /\ long) =>
            /\ (/\ validated.file_type = "stimulus"
                /\ processor.activity # None
                /\ data.shape[1] # processor.activity.shape[1])
               => (~validated.is_valid /\ Says(<<"must", "match", "activity", "length">>))
            /\ (/\ validated.file_type = "activity"
                /\ ndim(data) = 1
                /\ processor.stimulus # None
                /\ data.shape[1] # processor.stimulus.shape[1])
               => (~validated.is_valid /\ Says(<<"must", "match", "stimulus", "length">>))

\* The cases validate_file has to reject
MustReject(f, file_type) ==
    \/ ~f.exists
    \/ Lower(f.suffix) # ".npy"
    \/ f.nan
    \/ file_type = "activity" /\ ndim(f.array) # 1
    \/ ndim(f.array) >= 1 /\ f.array.shape[1] < MIN_TIME_POINTS
    \/ /\ file_type = "activity" /\ ndim(f.array) = 1 /\ processor.stimulus # None
       /\ f.array.shape[1] # processor.stimulus.shape[1]
    \/ /\ file_type = "stimulus" /\ ndim(f.array) >= 1 /\ processor.activity # None
       /\ f.array.shape[1] # processor.activity.shape[1]

\* C16: validate_file returns a consistent triple: is_valid exactly when
\* errors is empty, and then data is the content of the file; on every
\* rejection is_valid is False, errors is non-empty and data is None; and
\* every case that has to be rejected is rejected.
C16_ConsistentTriple ==
    validated.file_type # "none" =>
        LET f == ValidatedFile
        IN  /\ validated.is_valid <=> validated.errors = <<>>
            /\ validated.is_valid => validated.data = f.array
            /\ ~validated.is_valid => (validated.errors # <<>> /\ validated.data = None)
            /\ MustReject(f, validated.file_type) => ~validated.is_valid

\* A stimulus was set, and then a file with NaN values was rejected
C16_Witness ==
    /\ validated.file = "nan"
    /\ ~validated.is_valid
    /\ validated.errors = <<MsgNaN>>
    /\ validated.data = None
    /\ processor.stimulus # None


C18_EstimatorShape ==
    (/\ call.fn = "receptive_field"
     /\ Len(call.stimulus.shape) \in 1..3
     /\ Len(call.activity.shape) = 2
     /\ call.activity.shape[1] = call.stimulus.shape[1]
     /\ ~call.kernel_size.float
     /\ 2 <= call.kernel_size.twice
     /\ call.kernel_size.twice < 2 * call.stimulus.shape[1])
    => (/\ result.ok
        /\ result.value.shape =
              <<call.kernel_size.twice \div 2, call.activity.shape[2]>>
              \o ShapeFrom(call.stimulus, 1))


\* C19: the vectorized encoder agrees with the loop encoder: for every
\* (S, W) that encoder accepts, encoder_faster returns the same (T, N)
\* activity, for every spatial rank and every number of neurons.
C19_FasterAgrees ==
    (/\ call.fn = "encoder"
     /\ call2.fn = "encoder_faster"
     /\ result.ok)
    => result2 = result

\* What the two encoders do agree on: the shape, and the values for one
\* neuron and one spatial element
FasterAgreesForOneNeuron ==
    (/\ call.fn = "encoder"
     /\ call2.fn = "encoder_faster")
    => /\ result2.ok = result.ok
       /\ result.ok => result2.value.shape = result.value.shape
       /\ (result.ok /\ Len(call.rf.data) = call.rf.shape[1]) => result2 = result


\* Every element of the array is 0
AllZero(a) == \A i \in 1..Len(a.data) : a.data[i] = 0

\* C20: zero inputs give zero output: encoder(S, W) is all zeros when W is
\* all zeros, whatever S, and when S is all zeros, whatever W.
C20_ZeroInZeroOut ==
    (/\ call.fn = "encoder"
     /\ result.ok
     /\ AllZero(call.stimulus) \/ AllZero(call.rf))
    => (/\ AllZero(result.value)
        /\ Len(result.value.data) = call.stimulus.shape[1] * call.rf.shape[2])

\* A zero kernel met a stimulus that is not zero, over two spatial elements
C20_Witness ==
    /\ call.fn = "encoder"
    /\ AllZero(call.rf)
    /\ ~AllZero(call.stimulus)
    /\ ndim(call.stimulus) = 2
    /\ call.rf.shape[1] = 2
    /\ result.ok
    /\ AllZero(result.value)


(***************************************************************************)
(* Linearity (under SpecLinear) and frame (under SpecCore) of the core     *)
(* functions.                                                              *)
(***************************************************************************)
\* C21: encoder is linear in each argument: encoder(S, W1 + W2) =
\* encoder(S, W1) + encoder(S, W2), encoder(S1 + S2, W) = encoder(S1, W) +
\* encoder(S2, W), and encoder(c * S, W) = c * encoder(S, W) for an integer c.
C21_EncoderLinear ==
    (call.fn = "encoder" /\ call3.fn = "encoder" /\ result.ok) =>
        /\ (/\ call2.fn = "encoder"
            /\ result2.ok
            /\ call2.stimulus = call.stimulus
            /\ call3.stimulus = call.stimulus
            /\ call3.rf = AddArrays(call.rf, call2.rf))
           => result3 = Return(AddArrays(result.value, result2.value))
        /\ (/\ call2.fn = "encoder"
            /\ result2.ok
            /\ call2.rf = call.rf
            /\ call3.rf = call.rf
            /\ call3.stimulus = AddArrays(call.stimulus, call2.stimulus))
           => result3 = Return(AddArrays(result.value, result2.value))
        /\ \A c \in Scalars :
              (call3.rf = call.rf /\ call3.stimulus = Scale(c, call.stimulus))
              => result3 = Return(Scale(c, result.value))

\* Two different kernels over a spatial axis were added, and the activity
\* of the sum differs from the activity of either
C21_Witness ==
    /\ call.fn = "encoder"
    /\ call2.fn = "encoder"
    /\ call3.fn = "encoder"
    /\ ndim(call.stimulus) = 2
    /\ call2.stimulus = call.stimulus
    /\ call2.rf # call.rf
    /\ call3.rf = AddArrays(call.rf, call2.rf)
    /\ result3.ok
    /\ result3.value = AddArrays(result.value, result2.value)
    /\ result3.value # result.value
    /\ result3.value # result2.value

\* C22: the core functions do not change their arguments: after encoder(S, W)
\* or receptive_field(S, A, K) returned or raised, S, W and A hold the values
\* they held before the call, and what was returned is a new array.
C22_ArgumentsUnchanged ==
    /\ call.fn = "encoder" =>
          /\ args.stimulus = call.stimulus
          /\ args.receptive_field = call.rf
          /\ result.ok <=> args.returned # "none"
          /\ result.ok => (/\ args.returned \notin {"stimulus", "receptive_field"}
                           /\ args[args.returned] = result.value)
    /\ call.fn = "receptive_field" =>
          /\ args.stimulus = call.stimulus
          /\ args.activity = call.activity
          /\ result.ok <=> args.returned # "none"

\* encoder returned the activity of a stimulus over two spatial axes
C22_Witness ==
    /\ call.fn = "encoder"
    /\ ndim(call.stimulus) = 3
    /\ result.ok
    /\ args.returned = "result"
    /\ args.result = result.value
    /\ args.stimulus = call.stimulus
    /\ ~AllZero(result.value)


(***************************************************************************)
(* Flags of the data manager (under SpecManager) and Reset All (under      *)
(* SpecGui).                                                               *)
(***************************************************************************)
\* C24: the computable flags are sound: receptive_field.computable only if
\* activity and stimulus are loaded, activity.computable only if receptive
\* field and stimulus are loaded; so a compute the flag enables never fails
\* the assertion that both are loaded.
C24_ComputableSound ==
    LET dm == data_manager
    IN  /\ dm.receptive_field.computable => (dm.activity.loaded /\ dm.stimulus.loaded)
        /\ dm.activity.computable => (dm.receptive_field.loaded /\ dm.stimulus.loaded)
        /\ dm.receptive_field.computable =>
              ReceptiveField_compute(dm).ret # "AssertionError"
        /\ dm.activity.computable => Activity_compute(dm).ret # "AssertionError"

\* The step is a set_data on component c while the other of the pair is loaded
SetWhileOtherLoaded(c, other) ==
    /\ data_manager[other].loaded
    /\ last'.op = "set_data"
    /\ last'.component = c

\* The step appended one error to component c and changed nothing else
OnlyAppendedError(c) ==
    /\ Len(data_manager'[c].errors) = Len(data_manager[c].errors) + 1
    /\ SubSeq(data_manager'[c].errors, 1, Len(data_manager[c].errors))
          = data_manager[c].errors
    /\ [data_manager' EXCEPT ![c].errors = data_manager[c].errors] = data_manager

\* C25: activity and receptive field are never both loaded, and a set_data
\* on one while the other is loaded returns False and changes no field of
\* either component other than appending to errors.
C25_NeverBothLoaded ==
    /\ [](~(data_manager.activity.loaded /\ data_manager.receptive_field.loaded))
    /\ [][/\ SetWhileOtherLoaded("receptive_field", "activity")
             => (last'.ret = "False" /\ OnlyAppendedError("receptive_field"))
          /\ SetWhileOtherLoaded("activity", "receptive_field")
             => (last'.ret = "False" /\ OnlyAppendedError("activity"))]_vars

\* A receptive field file was refused while an activity was loaded
C25_Witness ==
    /\ data_manager.activity.loaded
    /\ data_manager.stimulus.loaded
    /\ last.op = "set_data"
    /\ last.component = "receptive_field"
    /\ last.ret = "False"
    /\ data_manager.receptive_field.errors = <<ErrRFWhenActivity>>
    /\ ~data_manager.receptive_field.loaded

\* C26: computed data never outlives its inputs: receptive_field.computed
\* implies stimulus.loaded and activity.loaded, activity.computed implies
\* stimulus.loaded and receptive_field.loaded; after a reset or a failed
\* load of an input nothing computed from it is left.
C26_ComputedHasInputs ==
    LET dm == data_manager
    IN  /\ dm.receptive_field.computed => (dm.stimulus.loaded /\ dm.activity.loaded)
        /\ dm.activity.computed => (dm.stimulus.loaded /\ dm.receptive_field.loaded)
        /\ (last.op = "reset_state" \/ (last.op = "set_data" /\ last.ret = "False"
                                        /\ ~dm[last.component].loaded))
           => (/\ last.component \in {"stimulus", "receptive_field"}
                  => (~dm.activity.computed /\ (dm.activity.loaded \/ dm.activity.data = None))
               /\ last.component \in {"stimulus", "activity"}
                  => ~dm.receptive_field.computed)

\* An activity was computed from a loaded stimulus and receptive field
C26_Witness ==
    /\ last.op = "compute"
    /\ last.component = "activity"
    /\ last.ret = "True"
    /\ data_manager.activity.computed
    /\ data_manager.stimulus.loaded
    /\ data_manager.receptive_field.loaded

\* C27: the available flags track the load state: stimulus.available iff the
\* stimulus is not loaded; activity.available iff neither activity nor
\* receptive field is loaded; receptive_field.available likewise.
C27_AvailableTracksLoaded ==
    LET dm == data_manager
        neither == ~dm.activity.loaded /\ ~dm.receptive_field.loaded
    IN  /\ dm.stimulus.available <=> ~dm.stimulus.loaded
        /\ dm.activity.available <=> neither
        /\ dm.receptive_field.available <=> neither

\* An activity was loaded next to a stimulus: neither Load > Activity nor
\* Load > Receptive Field is enabled
C27_Witness ==
    /\ last.op = "set_data"
    /\ last.component = "activity"
    /\ last.ret = "True"
    /\ data_manager.activity.loaded
    /\ data_manager.stimulus.loaded
    /\ ~data_manager.activity.available
    /\ ~data_manager.receptive_field.available
    /\ ~data_manager.stimulus.available

\* The data manager as constructed
FreshManager ==
    [activity |-> ActivityDefaults, stimulus |-> StimulusDefaults,
     receptive_field |-> ReceptiveFieldDefaults]

\* C28: Reset All restores the state of a freshly constructed data manager
\* from every reachable state, and is idempotent.
C28_ResetAllRestores ==
    /\ last.op = "reset_all" => data_manager = FreshManager
    /\ reset_all(data_manager) = FreshManager
    /\ reset_all(reset_all(data_manager)) = reset_all(data_manager)

\* Reset All was confirmed and the manager is as constructed
C28_Witness ==
    /\ last.op = "reset_all"
    /\ message = Information("All data has been reset successfully.")
    /\ data_manager = FreshManager


(***************************************************************************)
(* Frame of validate_file (under SpecProcessor).                           *)
(***************************************************************************)
\* C29: a rejected validate_file call leaves the processor unchanged: when
\* it returns is_valid False, activity, stimulus, activity_dims,
\* stimulus_dims and stimulus_ndim are as they were before the call.
C29_RejectedLeavesProcessor ==
    [][(/\ validated'.file_type # "none"
        /\ ~validated'.kept
        /\ ~validated'.is_valid)
       => (/\ processor'.activity = processor.activity
           /\ processor'.stimulus = processor.stimulus
           /\ processor'.activity_dims = processor.activity_dims
           /\ processor'.stimulus_dims = processor.stimulus_dims
           /\ processor'.stimulus_ndim = processor.stimulus_ndim)]_vars

\* What a rejected call does leave alone: the arrays themselves
RejectedLeavesArrays ==
    [][(/\ validated'.file_type # "none"
        /\ ~validated'.kept
        /\ ~validated'.is_valid)
       => (/\ processor'.activity = processor.activity
           /\ processor'.stimulus = processor.stimulus)]_vars

\* C23: the visualization layer only reads the component it shows: after
\* PlotManager(component) and after every update_axes, update_ranges and
\* update_slice the component's array is the array that was given, also when
\* that array holds NaN or infinite values
C23_ComponentDataUnchanged ==
    plot_last.op # "none" => component.data = plot_last.given

\* The selection of a plot manager: two selected axes, the other axes sliced,
\* every slice an index of its axis, every range within its axis, and
\* plot_data two-dimensional with the extents of the two ranges
SelectionWellFormed(pm) ==
    LET size(a) == pm.data.shape[a + 1]
        selected == Elements(pm.selected_axes)
        sliced == Elements(pm.slice_axes)
    IN  /\ Len(pm.selected_axes) = 2
        /\ pm.selected_axes[1] # pm.selected_axes[2]
        /\ Len(pm.slice_axes) = pm.ndim - 2
        /\ selected \cap sliced = {}
        /\ selected \cup sliced = 0..(pm.ndim - 1)
        /\ DOMAIN pm.slices = sliced
        /\ DOMAIN pm.ranges = selected
        /\ \A a \in sliced : 0 <= pm.slices[a] /\ pm.slices[a] <= size(a) - 1
        /\ \A a \in selected :
               /\ 0 <= pm.ranges[a][1]
               /\ pm.ranges[a][1] <= pm.ranges[a][2]
               /\ pm.ranges[a][2] <= size(a) - 1
        /\ pm.plot_data.shape =
               <<pm.ranges[pm.selected_axes[1]][2] - pm.ranges[pm.selected_axes[1]][1] + 1,
                 pm.ranges[pm.selected_axes[2]][2] - pm.ranges[pm.selected_axes[2]][1] + 1>>

\* C30: after the constructor and after any sequence of update_axes,
\* update_ranges and update_slice calls that pass their assertions, the
\* selection of the plot manager is well-formed
C30_SelectionWellFormed ==
    plot_manager # NoPlotManager => SelectionWellFormed(plot_manager)

====
